---- MODULE Spec2Model ----
(***************************************************************************)
(* A model of 3h-version: the Version library (src/lib.js) and the         *)
(* executor of its command line (src/cli.js, lines 74-209).                *)
(*                                                                         *)
(* A JavaScript string is a sequence of one-character strings.  A          *)
(* JavaScript value held in an array is a record [t, n, s]: t is its type  *)
(* ("num", "nan", "inf", "str", "undef"), n its value when t = "num" and   *)
(* s its characters when t = "str".  An array, or null, is a record        *)
(* [isNull, items].                                                        *)
(*                                                                         *)
(* Console output (-h, -g, -c) and the changelog file (src/cli.js, lines    *)
(* 159-207) are left out: they neither read nor write the manifest.        *)
(* Every number the inputs below produce is far below 2^53, where          *)
(* JavaScript's numbers are exact integers printed in decimal.             *)
(***************************************************************************)
EXTENDS Integers, Sequences, FiniteSets, TLC

VARIABLES
    str,        \* lib: the string handed to the library
    called,     \* lib: the library function that was called last ("" at first)
    level,      \* lib: the level handed to increase / getHeadingLevel
    checkRet,   \* lib: what check returned
    parseRet,   \* lib: what parse returned
    increaseRet,\* lib: what increase returned (or TypeError)
    headingRet, \* lib: what getHeadingLevel / getHeadingLevelFromVersion returned
    manifest,   \* cli: the version property of the manifest file
    args,       \* cli: the arguments of the last run of the executor
    exitCode,   \* cli: -1 before any run, 0 normal end, 1 after logErrorAndExit
    errMsg,     \* cli: which message logErrorAndExit printed ("" if none)
    written,    \* cli: the versions writeJson wrote in the last run, in order
    incCalls,   \* cli: the <<version, level>> pairs handed to increase in the last run
    runs        \* cli: how many runs of the executor have happened

vars == <<str, called, level, checkRet, parseRet, increaseRet, headingRet,
          manifest, args, exitCode, errMsg, written, incCalls, runs>>

libVars == <<str, called, level, checkRet, parseRet, increaseRet, headingRet>>

cliVars == <<manifest, args, exitCode, errMsg, written, incCalls, runs>>

----------------------------------------------------------------------------
(* Characters *)

Digits == {"0", "1", "2", "3", "4", "5", "6", "7", "8", "9"}

LowerLetters ==
    {"a", "b", "c", "d", "e", "f", "g", "h", "i", "j", "k", "l", "m",
     "n", "o", "p", "q", "r", "s", "t", "u", "v", "w", "x", "y", "z"}

UpperLetters ==
    {"A", "B", "C", "D", "E", "F", "G", "H", "I", "J", "K", "L", "M",
     "N", "O", "P", "Q", "R", "S", "T", "U", "V", "W", "X", "Y", "Z"}

\* the class \d of the regular expression
IsDigit(c) == c \in Digits

\* the class \w of the regular expression
IsWord(c) == c \in Digits \cup LowerLetters \cup UpperLetters \cup {"_"}

\* every character of s[from..to] is a digit, or a word character
AllDigits(s, from, to) == \A k \in from..to : IsDigit(s[k])

AllWord(s, from, to) == \A k \in from..to : IsWord(s[k])

\* whether the literal lit occurs in s at position p
LitAt(s, p, lit) ==
    /\ p + Len(lit) - 1 <= Len(s)
    /\ \A k \in 1..Len(lit) : s[p + k - 1] = lit[k]

----------------------------------------------------------------------------
(* JavaScript values *)

Num(n) == [t |-> "num", n |-> n, s |-> <<>>]
NaN == [t |-> "nan", n |-> 0, s |-> <<>>]
Infinity == [t |-> "inf", n |-> 0, s |-> <<>>]
Str(s) == [t |-> "str", n |-> 0, s |-> s]
undefined == [t |-> "undef", n |-> 0, s |-> <<>>]

null == [isNull |-> TRUE, items |-> <<>>]
Arr(items) == [isNull |-> FALSE, items |-> items]

\* what increase leaves behind when it throws
TypeError == <<"TypeError">>

\* arr[i] with JavaScript's zero-based index: undefined past the end
At(items, i) == IF i + 1 <= Len(items) THEN items[i + 1] ELSE undefined

\* arr[i] = v: the array grows to hold index i (i <= length here)
SetAt(items, i, v) ==
    IF i + 1 <= Len(items) THEN [items EXCEPT ![i + 1] = v]
    ELSE Append(items, v)

HexVal(c) ==
    CASE c \in {"0"} -> 0 [] c \in {"1"} -> 1 [] c \in {"2"} -> 2
      [] c \in {"3"} -> 3 [] c \in {"4"} -> 4 [] c \in {"5"} -> 5
      [] c \in {"6"} -> 6 [] c \in {"7"} -> 7 [] c \in {"8"} -> 8
      [] c \in {"9"} -> 9 [] c \in {"a", "A"} -> 10 [] c \in {"b", "B"} -> 11
      [] c \in {"c", "C"} -> 12 [] c \in {"d", "D"} -> 13
      [] c \in {"e", "E"} -> 14 [] c \in {"f", "F"} -> 15
      [] OTHER -> 99

RECURSIVE Pow(_, _)
Pow(b, e) == IF e = 0 THEN 1 ELSE b * Pow(b, e - 1)

\* the value of the digits s[from..to] in the given radix
RECURSIVE RadixVal(_, _, _, _)
RadixVal(s, from, to, radix) ==
    IF to < from THEN 0
    ELSE RadixVal(s, from, to - 1, radix) * radix + HexVal(s[to])

IsRadixDigits(s, from, radix) ==
    /\ from <= Len(s)
    /\ \A k \in from..Len(s) : HexVal(s[k]) < radix

\* ToNumber of a string without white space, sign or decimal point
\* (a piece of a string that passed check holds none of them)
StringToNumber(s) ==
    IF Len(s) = 0 THEN Num(0)
    ELSE IF AllDigits(s, 1, Len(s)) THEN Num(RadixVal(s, 1, Len(s), 10))
    ELSE IF s = <<"I", "n", "f", "i", "n", "i", "t", "y">> THEN Infinity
    ELSE IF Len(s) >= 3 /\ s[1] = "0" /\ s[2] \in {"x", "X"} /\ IsRadixDigits(s, 3, 16)
        THEN Num(RadixVal(s, 3, Len(s), 16))
    ELSE IF Len(s) >= 3 /\ s[1] = "0" /\ s[2] \in {"o", "O"} /\ IsRadixDigits(s, 3, 8)
        THEN Num(RadixVal(s, 3, Len(s), 8))
    ELSE IF Len(s) >= 3 /\ s[1] = "0" /\ s[2] \in {"b", "B"} /\ IsRadixDigits(s, 3, 2)
        THEN Num(RadixVal(s, 3, Len(s), 2))
    ELSE IF \E k \in 2..(Len(s) - 1) :
                /\ s[k] \in {"e", "E"}
                /\ AllDigits(s, 1, k - 1)
                /\ AllDigits(s, k + 1, Len(s))
        THEN LET k == CHOOSE k \in 2..(Len(s) - 1) : s[k] \in {"e", "E"}
             IN  Num(RadixVal(s, 1, k - 1, 10) * Pow(10, RadixVal(s, k + 1, Len(s), 10)))
    ELSE NaN

\* ToNumber of a value
ToNumber(v) ==
    CASE v.t = "str" -> StringToNumber(v.s)
      [] v.t = "undef" -> NaN
      [] OTHER -> v

\* (a - 0): the number a is coerced to
MinusZero(v) == ToNumber(v)

\* (x > 0) on numbers: false for NaN
GreaterThanZero(v) == v.t = "inf" \/ (v.t = "num" /\ v.n > 0)

\* x++ : the new value of x
PlusPlus(v) ==
    LET x == ToNumber(v)
    IN  IF x.t = "num" THEN Num(x.n + 1) ELSE x

DigitChar(d) ==
    CASE d = 0 -> "0" [] d = 1 -> "1" [] d = 2 -> "2" [] d = 3 -> "3"
      [] d = 4 -> "4" [] d = 5 -> "5" [] d = 6 -> "6" [] d = 7 -> "7"
      [] d = 8 -> "8" [] d = 9 -> "9"

\* Number::toString of a non-negative integer below 10^21
RECURSIVE NumberToString(_)
NumberToString(n) ==
    IF n < 10 THEN <<DigitChar(n)>>
    ELSE Append(NumberToString(n \div 10), DigitChar(n % 10))

\* ToString of an array element, as Array.prototype.join takes it
\* (undefined and null give the empty string)
ElemToString(v) ==
    CASE v.t = "num" -> NumberToString(v.n)
      [] v.t = "nan" -> <<"N", "a", "N">>
      [] v.t = "inf" -> <<"I", "n", "f", "i", "n", "i", "t", "y">>
      [] v.t = "str" -> v.s
      [] OTHER -> <<>>

\* Array.prototype.join
RECURSIVE join(_, _)
join(items, sep) ==
    IF Len(items) = 0 THEN <<>>
    ELSE IF Len(items) = 1 THEN ElemToString(items[1])
    ELSE join(SubSeq(items, 1, Len(items) - 1), sep) \o sep
             \o ElemToString(items[Len(items)])

\* String.prototype.split on a one-character separator: the pieces, in order
RECURSIVE split(_, _)
split(s, sep) ==
    IF \A k \in 1..Len(s) : s[k] # sep THEN <<s>>
    ELSE LET k == CHOOSE k \in 1..Len(s) :
                      s[k] = sep /\ \A j \in 1..(k - 1) : s[j] # sep
         IN  <<SubSeq(s, 1, k - 1)>> \o split(SubSeq(s, k + 1, Len(s)), sep)

\* Array.prototype.slice(0, n)
slice0(items, n) == SubSeq(items, 1, IF Len(items) < n THEN Len(items) ELSE n)

\* Array.prototype.indexOf on an array of strings
indexOf(items, x) ==
    IF \E k \in 1..Len(items) : items[k] = x
    THEN (CHOOSE k \in 1..Len(items) :
              items[k] = x /\ \A j \in 1..(k - 1) : items[j] # x) - 1
    ELSE -1

----------------------------------------------------------------------------
(* Version (src/lib.js) *)

Tags == <<<<"a", "l", "p", "h", "a">>, <<"b", "e", "t", "a">>,
          <<"g", "a", "m", "m", "a">>>>

TagSet == {Tags[k] : k \in 1..Len(Tags)}

\* \d+ from the start of s: the positions the match can end before
AfterMajor(s) == {p \in 2..(Len(s) + 1) : AllDigits(s, 1, p - 1)}

\* (?:\.\w*) from any position of P: a component may be empty
AfterGroupStar(s, P) ==
    {q \in 2..(Len(s) + 1) :
        \E p \in P : /\ p <= Len(s)
                     /\ s[p] = "."
                     /\ q >= p + 1
                     /\ AllWord(s, p + 1, q - 1)}

\* (?:\.\w+) from any position of P
AfterGroup(s, P) ==
    {q \in 3..(Len(s) + 1) :
        \E p \in P : /\ p <= Len(s)
                     /\ s[p] = "."
                     /\ q >= p + 2
                     /\ AllWord(s, p + 1, q - 1)}

\* (?:\.\w+){0,2} from any position of P
AfterGroups(s, P) == P \cup AfterGroup(s, P) \cup AfterGroup(s, AfterGroup(s, P))

\* (?:-(?:alpha|beta|gamma))? from any position of P
AfterTag(s, P) ==
    P \cup {q \in 2..(Len(s) + 1) :
               \E p \in P : \E tg \in TagSet :
                   /\ p <= Len(s)
                   /\ s[p] = "-"
                   /\ LitAt(s, p + 1, tg)
                   /\ q = p + 1 + Len(tg)}

\* /^\d+(?:\.\w+){0,2}(?:-(?:alpha|beta|gamma))?$/.test(s)
check(s) == (Len(s) + 1) \in AfterTag(s, AfterGroups(s, AfterMajor(s)))

\* n => (n - 0) > 0 ? (n - 0) : 0
Coerce(piece) ==
    IF GreaterThanZero(MinusZero(Str(piece))) THEN MinusZero(Str(piece)) ELSE Num(0)

parse(s) ==
    IF check(s)
    THEN LET pieces == split(s, "-")
             digitals == pieces[1]
             tag == IF Len(pieces) >= 2 THEN pieces[2] ELSE <<>>
             nums == split(digitals, ".")
         IN  Arr([k \in 1..Len(nums) |-> Coerce(nums[k])] \o <<Str(tag)>>)
    ELSE null

PATCH == <<"p", "a", "t", "c", "h">>
MINOR == <<"m", "i", "n", "o", "r">>
MAJOR == <<"m", "a", "j", "o", "r">>

\* the switch of increase, on the array ans
Bump(ans, lv) ==
    IF lv = PATCH THEN SetAt(ans, 2, PlusPlus(At(ans, 2)))
    ELSE IF lv = MINOR THEN SetAt(SetAt(ans, 1, PlusPlus(At(ans, 1))), 2, Num(0))
    ELSE IF lv = MAJOR
        THEN SetAt(SetAt(SetAt(ans, 0, PlusPlus(At(ans, 0))), 2, Num(0)), 1, Num(0))
    ELSE ans

\* Version.parse(ver).slice throws a TypeError when parse returns null
increase(ver, lv) ==
    IF parse(ver).isNull THEN TypeError
    ELSE join(Bump(slice0(parse(ver).items, 3), lv), <<".">>)

getHeadingLevel(lv) == indexOf(<<MAJOR, MINOR, PATCH>>, lv) + 1

\* versions[k] === 0
IsZero(v) == v.t = "num" /\ v.n = 0

getHeadingLevelFromVersion(version) ==
    LET versions == parse(version)
    IN  IF ~versions.isNull
        THEN IF IsZero(At(versions.items, 2))
             THEN IF IsZero(At(versions.items, 1)) THEN 1 ELSE 2
             ELSE 3
        ELSE 0

----------------------------------------------------------------------------
(* The strings and levels the library is called with *)

MaxLen == 3

Chars == {"0", "1", ".", "-", "a", "_", " "}

RECURSIVE StringsUpTo(_)
StringsUpTo(n) ==
    IF n = 0 THEN {<<>>}
    ELSE LET shorter == StringsUpTo(n - 1)
         IN  shorter \cup {Append(s, c) : s \in {x \in shorter : Len(x) = n - 1}, c \in Chars}

Majors == {<<>>, <<"0">>, <<"1">>, <<"9">>, <<"1", "2">>}

Groups == {<<>>, <<".">>, <<".", "0">>, <<".", "2">>, <<".", "3">>, <<".", "9">>,
           <<".", "x">>,
           <<".", "1", "e", "1">>}

ThirdGroups == {<<>>, <<".", "4">>}

TagParts == {<<>>, <<"-">>, <<"-", "a", "l", "p", "h", "a">>, <<"-", "b", "e", "t", "a">>,
             <<"-", "g", "a", "m", "m", "a">>, <<"-", "r", "c">>,
             <<"-", "b", "e", "t", "a", "s">>}

Composed ==
    {maj \o g1 \o g2 \o g3 \o tg :
        maj \in Majors, g1 \in Groups, g2 \in Groups,
        g3 \in ThirdGroups, tg \in TagParts}

Others == {<<"a", "b", "c">>, <<"x">>, <<"v", "1", ".", "2", ".", "3">>,
           <<"1", ".", "2", ".", "3", " ">>, <<" ", "1", ".", "2", ".", "3">>,
           <<"1", ".", "I", "n", "f", "i", "n", "i", "t", "y", ".", "3">>,
           <<"1", ".", "0", "x", "1", "f">>, <<"1", ".", "2", "_", "0", ".", "N", "a", "N">>,
           <<"1", "-", "b", "e", "t", "a", "-", "b", "e", "t", "a">>,
           <<"1", ".", "2", "\n">>, <<"2", "-", "B", "e", "t", "a">>}

Inputs == StringsUpTo(MaxLen) \cup Composed \cup Others

Levels == {PATCH, MINOR, MAJOR, <<>>, <<"f", "o", "o">>, <<"P", "a", "t", "c", "h">>,
           <<"m", "a", "j", "o", "r", "s">>}

NoArgs == [fileExists |-> TRUE, hasVersion |-> TRUE, t |-> <<>>,
           hasP |-> FALSE, p |-> <<>>, hasS |-> FALSE, s |-> <<>>,
           hasI |-> FALSE, i |-> <<>>]

CliIdle ==
    /\ manifest = <<>>
    /\ args = NoArgs
    /\ exitCode = -1
    /\ errMsg = ""
    /\ written = <<>>
    /\ incCalls = <<>>
    /\ runs = 0

\* The library keeps no state between calls (src/lib.js holds no variable
\* outside its functions), so a behaviour is one call on one input.
Init ==
    /\ str \in Inputs
    /\ called = ""
    /\ level = <<>>
    /\ checkRet = FALSE
    /\ parseRet = null
    /\ increaseRet = <<>>
    /\ headingRet = 0
    /\ CliIdle

CallCheck ==
    /\ called = ""
    /\ called' = "check"
    /\ checkRet' = check(str)
    /\ level' = <<>>
    /\ parseRet' = null
    /\ increaseRet' = <<>>
    /\ headingRet' = 0
    /\ UNCHANGED <<str, cliVars>>

CallParse ==
    /\ called = ""
    /\ called' = "parse"
    /\ parseRet' = parse(str)
    /\ level' = <<>>
    /\ checkRet' = FALSE
    /\ increaseRet' = <<>>
    /\ headingRet' = 0
    /\ UNCHANGED <<str, cliVars>>

CallIncrease ==
    \E lv \in Levels :
        /\ called = ""
        /\ called' = "increase"
        /\ level' = lv
        /\ increaseRet' = increase(str, lv)
        /\ checkRet' = FALSE
        /\ parseRet' = null
        /\ headingRet' = 0
        /\ UNCHANGED <<str, cliVars>>

CallGetHeadingLevel ==
    \E lv \in Levels :
        /\ called = ""
        /\ called' = "getHeadingLevel"
        /\ level' = lv
        /\ headingRet' = getHeadingLevel(lv)
        /\ checkRet' = FALSE
        /\ parseRet' = null
        /\ increaseRet' = <<>>
        /\ UNCHANGED <<str, cliVars>>

CallGetHeadingLevelFromVersion ==
    /\ called = ""
    /\ called' = "getHeadingLevelFromVersion"
    /\ headingRet' = getHeadingLevelFromVersion(str)
    /\ level' = <<>>
    /\ checkRet' = FALSE
    /\ parseRet' = null
    /\ increaseRet' = <<>>
    /\ UNCHANGED <<str, cliVars>>

Next ==
    \/ CallCheck
    \/ CallParse
    \/ CallIncrease
    \/ CallGetHeadingLevel
    \/ CallGetHeadingLevelFromVersion

Spec == Init /\ [][Next]_vars

----------------------------------------------------------------------------
(* The executor (src/cli.js) *)

MaxRuns == 2

defaultTabSize == <<"4">>

BETA == <<"b", "e", "t", "a">>

\* ['alpha', 'beta', 'gamma'] of line 113
CliTags == {<<"a", "l", "p", "h", "a">>, BETA, <<"g", "a", "m", "m", "a">>}

\* pick(v1, v2); an argument that is absent or has no value is the empty list
pick(v1, v2) == IF Len(v1) > 0 THEN v1[1] ELSE v2

\* how a run ends: the exit status, the message of logErrorAndExit, the versions
\* writeJson wrote, the calls of increase and the manifest's version afterwards
End(code, msg, wr, calls, m) ==
    [exitCode |-> code, errMsg |-> msg, written |-> wr, incCalls |-> calls,
     manifest |-> m]

\* lines 142-157, with curVer the current version, tag the suffix and wr the
\* versions written so far
IncStep(a, curVer, tag, wr) ==
    LET lv == pick(a.i, PATCH)
        headingLevel == getHeadingLevel(lv)
    IN  IF ~a.hasI THEN End(0, "", wr, <<>>, curVer)
        ELSE IF headingLevel = -1 THEN End(1, "Invalid level", wr, <<>>, curVer)
        ELSE IF increase(curVer, lv) = TypeError
            THEN End(1, "TypeError", wr, <<<<curVer, lv>>>>, curVer)
        ELSE LET targetVer == increase(curVer, lv) \o tag
             IN  End(0, "", Append(wr, targetVer), <<<<curVer, lv>>>>, targetVer)

\* lines 119-140, then IncStep
SetStep(a, m, tag) ==
    LET valid == check(m)
    IN  IF a.hasS
        THEN IF Len(a.s) = 0 THEN End(1, "Target version missed", <<>>, <<>>, m)
             ELSE LET targetVer == a.s[1] \o tag
                  IN  IF ~check(targetVer)
                      THEN End(1, "Target version invalid", <<>>, <<>>, m)
                      ELSE IF ~valid
                          THEN End(1, "Current version invalid", <<targetVer>>, <<>>,
                                   targetVer)
                      ELSE IncStep(a, targetVer, tag, <<targetVer>>)
        ELSE IF ~valid THEN End(1, "Current version invalid", <<>>, <<>>, m)
        ELSE IncStep(a, m, tag, <<>>)

\* lines 80-117, then SetStep: m is the version property of the manifest
Run(a, m) ==
    IF ~a.fileExists THEN End(1, "File not found", <<>>, <<>>, m)
    ELSE IF ~a.hasVersion THEN End(1, "Version property not found", <<>>, <<>>, m)
    ELSE IF StringToNumber(pick(a.t, defaultTabSize)).t = "nan"
        THEN End(1, "Invalid tab size", <<>>, <<>>, m)
    ELSE IF a.hasP
        THEN IF pick(a.p, BETA) \notin CliTags
             THEN End(1, "Invalid tag", <<>>, <<>>, m)
             ELSE SetStep(a, m, <<"-">> \o pick(a.p, BETA))
    ELSE SetStep(a, m, <<>>)

Manifests == {<<"1">>, <<"1", ".", "2">>, <<"1", ".", "2", ".", "3">>,
              <<"1", ".", "9", ".", "9">>, <<"0", ".", "0", ".", "0">>,
              <<"1", ".", "2", ".", "3", "-", "b", "e", "t", "a">>,
              <<"1", "-", "a", "l", "p", "h", "a">>, <<"1", ".", "x", ".", "3">>,
              <<"x">>, <<>>, <<"v", "1", ".", "2", ".", "3">>}

Targets == {<<"1", ".", "0", ".", "0">>, <<"2">>, <<"1", ".", "2", "-", "b", "e", "t", "a">>,
            <<"a", "b", "c">>}

\* the environment and the -t argument
GoodEnvs == {[fileExists |-> TRUE, hasVersion |-> TRUE, t |-> <<>>]}

OtherEnvs == {[fileExists |-> TRUE, hasVersion |-> TRUE, t |-> <<<<"2">>>>],
            [fileExists |-> TRUE, hasVersion |-> TRUE, t |-> <<<<"x">>>>],
            [fileExists |-> TRUE, hasVersion |-> FALSE, t |-> <<>>],
            [fileExists |-> FALSE, hasVersion |-> FALSE, t |-> <<>>]}

\* -p with no value, a tag or something else
PArgs == {[hasP |-> FALSE, p |-> <<>>], [hasP |-> TRUE, p |-> <<>>],
          [hasP |-> TRUE, p |-> <<<<"a", "l", "p", "h", "a">>>>],
          [hasP |-> TRUE, p |-> <<<<"r", "c">>>>]}

SArgs == {[hasS |-> FALSE, s |-> <<>>], [hasS |-> TRUE, s |-> <<>>]}
             \cup {[hasS |-> TRUE, s |-> <<v>>] : v \in Targets}

CliLevels == {PATCH, MINOR, MAJOR, <<"f", "o", "o">>}

IArgs == {[hasI |-> FALSE, i |-> <<>>], [hasI |-> TRUE, i |-> <<>>]}
             \cup {[hasI |-> TRUE, i |-> <<lv>>] : lv \in CliLevels}

MakeArgs(e, pa, sa, ia) ==
    [fileExists |-> e.fileExists, hasVersion |-> e.hasVersion, t |-> e.t,
     hasP |-> pa.hasP, p |-> pa.p, hasS |-> sa.hasS, s |-> sa.s,
     hasI |-> ia.hasI, i |-> ia.i]

\* every combination of -p, -s and -i with the default tab size and a manifest
\* that can be read, and -s with -i otherwise
ArgSets ==
    {MakeArgs(e, pa, sa, ia) : e \in GoodEnvs, pa \in PArgs, sa \in SArgs, ia \in IArgs}
        \cup {MakeArgs(e, [hasP |-> FALSE, p |-> <<>>],
                        [hasS |-> TRUE, s |-> <<<<"2">>>>],
                        [hasI |-> TRUE, i |-> <<PATCH>>]) : e \in OtherEnvs}

LibIdle ==
    /\ str = <<>>
    /\ called = ""
    /\ level = <<>>
    /\ checkRet = FALSE
    /\ parseRet = null
    /\ increaseRet = <<>>
    /\ headingRet = 0

InitCli ==
    /\ manifest \in Manifests
    /\ args = NoArgs
    /\ exitCode = -1
    /\ errMsg = ""
    /\ written = <<>>
    /\ incCalls = <<>>
    /\ runs = 0
    /\ LibIdle

\* one run of the command line on the manifest as the last run left it
executor ==
    \E a \in ArgSets :
        /\ runs < MaxRuns
        /\ \E r \in {Run(a, manifest)} :
               /\ manifest' = r.manifest
               /\ exitCode' = r.exitCode
               /\ errMsg' = r.errMsg
               /\ written' = r.written
               /\ incCalls' = r.incCalls
        /\ args' = a
        /\ runs' = runs + 1
        /\ UNCHANGED libVars

NextCli == executor

SpecCli == InitCli /\ [][NextCli]_vars

----------------------------------------------------------------------------
(* What the specification says of the library *)

Recognized == {PATCH, MINOR, MAJOR}

IsTagSuffix(x) ==
    x \in {<<"-", "a", "l", "p", "h", "a">>, <<"-", "b", "e", "t", "a">>,
           <<"-", "g", "a", "m", "m", "a">>}

\* s[from..to] is one or more digits, or one or more word characters
DigitsComponent(s, from, to) == from <= to /\ \A k \in from..to : s[k] \in Digits

WordComponent(s, from, to) ==
    /\ from <= to
    /\ \A k \in from..to : s[k] \in Digits \cup LowerLetters \cup UpperLetters \cup {"_"}

\* <major>('.'<minor>('.'<patch>)?)?('-'<tag>)? : major is s[1..a], minor
\* s[a+2..b] when b > a, patch s[b+2..c] when c > b, and the tag the rest
InGrammar(s) ==
    \E a \in 1..Len(s) : \E b \in a..Len(s) : \E c \in b..Len(s) :
        /\ DigitsComponent(s, 1, a)
        /\ b > a => (s[a + 1] = "." /\ WordComponent(s, a + 2, b))
        /\ c > b => (b > a /\ s[b + 1] = "." /\ WordComponent(s, b + 2, c))
        /\ c < Len(s) => IsTagSuffix(SubSeq(s, c + 1, Len(s)))

Accepted == {<<"1">>, <<"1", ".", "2">>, <<"1", ".", "2", ".", "3">>,
             <<"1", ".", "2", ".", "3", "-", "b", "e", "t", "a">>,
             <<"1", ".", "2", "-", "a", "l", "p", "h", "a">>}

Rejected == {<<>>, <<"v", "1", ".", "2", ".", "3">>,
             <<"1", ".", "2", ".", "3", "-", "r", "c">>, <<"1", ".", ".", "2">>,
             <<"1", ".", "2", ".", "3", "-">>}

\* C1: check(s) is true exactly when the whole of s matches the grammar
\* <major>('.'<minor>('.'<patch>)?)?('-'<tag>)?, with major one or more digits,
\* minor and patch one or more word characters and tag alpha, beta or gamma;
\* the examples of the specification are accepted and rejected as it says.
CheckMatchesGrammar ==
    called = "check" =>
        /\ checkRet <=> InGrammar(str)
        /\ str \in Accepted => checkRet
        /\ str \in Rejected => ~checkRet

CheckAcceptsTaggedVersion ==
    /\ called = "check"
    /\ str = <<"1", ".", "2", ".", "3", "-", "b", "e", "t", "a">>
    /\ checkRet

\* the part of a valid s before its tag, and its tag ('' when it has none)
NumericPart(s) ==
    IF \E k \in 1..Len(s) : s[k] = "-"
    THEN SubSeq(s, 1, (CHOOSE k \in 1..Len(s) : s[k] = "-") - 1)
    ELSE s

TagPart(s) ==
    IF \E k \in 1..Len(s) : s[k] = "-"
    THEN SubSeq(s, (CHOOSE k \in 1..Len(s) : s[k] = "-") + 1, Len(s))
    ELSE <<>>

\* the numeric value of a component when it is greater than zero, else 0
FieldValue(piece) ==
    LET v == StringToNumber(piece)
    IN  IF v.t = "inf" \/ (v.t = "num" /\ v.n > 0) THEN v ELSE Num(0)

\* (major, minor, patch) of a valid s, a missing component counting as 0
Triple(s) ==
    LET pieces == split(NumericPart(s), ".")
    IN  [k \in 1..3 |-> IF k <= Len(pieces) THEN FieldValue(pieces[k]) ELSE Num(0)]

\* C2: parse(s) is null exactly when check(s) is false, and otherwise the
\* 4-tuple (major, minor, patch, tag): each field the numeric value of its
\* component when greater than zero and 0 otherwise, 0 for a missing minor or
\* patch, and tag '' when s has none.
ParseReturnsFourTuple ==
    called = "parse" =>
        /\ parseRet.isNull <=> ~check(str)
        /\ ~parseRet.isNull =>
               parseRet.items = Triple(str) \o <<Str(TagPart(str))>>

Succ(v) == IF v.t = "num" THEN Num(v.n + 1) ELSE v

Bumped(tr, lv) ==
    IF lv = PATCH THEN <<tr[1], tr[2], Succ(tr[3])>>
    ELSE IF lv = MINOR THEN <<tr[1], Succ(tr[2]), Num(0)>>
    ELSE IF lv = MAJOR THEN <<Succ(tr[1]), Num(0), Num(0)>>
    ELSE tr

JoinTriple(tr) ==
    ElemToString(tr[1]) \o <<".">> \o ElemToString(tr[2]) \o <<".">>
        \o ElemToString(tr[3])

\* C3: for a valid s with numeric triple (maj, min, pat), increase(s, level)
\* is "maj.min.(pat+1)" for patch, "maj.(min+1).0" for minor and "(maj+1).0.0"
\* for major, also when s omits minor or patch or carries a tag.
IncreaseBumpsTriple ==
    (called = "increase" /\ check(str) /\ level \in Recognized) =>
        increaseRet = JoinTriple(Bumped(Triple(str), level))

\* C4: for a valid v and a recognized level, check(increase(v, level)) is
\* true and increase(v, level) carries no tag.
IncreaseOutputIsValid ==
    (called = "increase" /\ check(str) /\ level \in Recognized) =>
        /\ check(increaseRet)
        /\ \A k \in 1..Len(increaseRet) : increaseRet[k] # "-"

NumLess(x, y) ==
    \/ x.t = "num" /\ y.t = "num" /\ x.n < y.n
    \/ x.t = "num" /\ y.t = "inf"

LexLess(x, y) ==
    \/ NumLess(x[1], y[1])
    \/ x[1] = y[1] /\ NumLess(x[2], y[2])
    \/ x[1] = y[1] /\ x[2] = y[2] /\ NumLess(x[3], y[3])

\* C5: for a valid v and a recognized level, the numeric triple of
\* increase(v, level) is greater than that of v in lexicographic order.
IncreaseIsMonotonic ==
    (called = "increase" /\ check(str) /\ level \in Recognized) =>
        /\ check(increaseRet)
        /\ LexLess(Triple(str), Triple(increaseRet))

\* C6: getHeadingLevelFromVersion(s) is 0 when s fails check, and otherwise
\* 1 when patch = 0 and minor = 0, 2 when patch = 0 and minor # 0, and 3 when
\* patch # 0, a missing component counting as 0.
HeadingLevelFromTriple ==
    called = "getHeadingLevelFromVersion" =>
        headingRet =
            IF ~check(str) THEN 0
            ELSE IF Triple(str)[3] = Num(0)
                THEN IF Triple(str)[2] = Num(0) THEN 1 ELSE 2
            ELSE 3

\* C7: for a valid s and a level that is not patch, minor or major,
\* increase(s, level) raises no error and returns the unchanged numeric
\* triple of s joined with '.', without the tag of s.
UnknownLevelLeavesTriple ==
    (called = "increase" /\ check(str) /\ level \notin Recognized) =>
        /\ increaseRet # TypeError
        /\ increaseRet = JoinTriple(Triple(str))

----------------------------------------------------------------------------
(* What the specification says of the command line *)

EarlyErrors == {"File not found", "Version property not found", "Invalid tab size",
                "Invalid tag", "Target version missed", "Target version invalid",
                "Current version invalid"}

\* C8: a run given -i with a level that is not major, minor or patch exits
\* with the error 'Invalid level' (unless an earlier error ended it) before
\* increase is called and before the manifest is written for the bump; a
\* bump is only ever performed with a recognized level.
InvalidLevelIsRejected ==
    /\ \A k \in 1..Len(incCalls) : incCalls[k][2] \in Recognized
    /\ (runs > 0 /\ args.hasI /\ pick(args.i, PATCH) \notin Recognized) =>
           /\ exitCode = 1
           /\ errMsg \in EarlyErrors \cup {"Invalid level"}
           /\ incCalls = <<>>
           /\ Len(written) <= IF args.hasS THEN 1 ELSE 0

\* C9: every value the executor writes to the manifest's version field, by
\* -s, by -i or by both in one run, satisfies check.
WrittenVersionsAreValid ==
    \A k \in 1..Len(written) : check(written[k])

\* C10: a run that ends through logErrorAndExit (exit status 1) has not
\* written the manifest.
ErrorLeavesManifest ==
    exitCode = 1 => written = <<>>

====
